---- MODULE Spec2Model ----
(***************************************************************************)
(* Model of the spreadsheet ingestion core of sales_managment:             *)
(*   src/data_processor.py  DataProcessor  (classifier, extractors,        *)
(*                          process_excel_file)                            *)
(*   src/database.py        DatabaseManager (add_customer, add_distributor,*)
(*                          generate_invoice_number, add_sale)             *)
(*   src/pages/sales.py     the quick-sale tab (invoice number box and     *)
(*                          the "Create Sale" submit)                      *)
(* Text is modelled by TLA+ strings; a blank (NaN) cell is the empty       *)
(* string.  Each public operation is one action.                           *)
(***************************************************************************)
EXTENDS Integers, Sequences, FiniteSets, TLC

(***************************************************************************)
(* Bounds of the model.                                                    *)
(***************************************************************************)
MaxOps == 2
MaxClock == 1
MaxRand == 2
MaxLogs == 8

(***************************************************************************)
(* Text helpers: Python's `in`, str.upper, str.lower, str.strip.           *)
(***************************************************************************)
Contains(h, k) ==
    \E i \in 1..(Len(h) - Len(k) + 1) : SubSeq(h, i, i + Len(k) - 1) = k

StartsWith(s, p) == Len(s) >= Len(p) /\ SubSeq(s, 1, Len(p)) = p

UpperOf ==
    [a |-> "A", b |-> "B", c |-> "C", d |-> "D", e |-> "E", f |-> "F",
     g |-> "G", h |-> "H", i |-> "I", j |-> "J", k |-> "K", l |-> "L",
     m |-> "M", n |-> "N", o |-> "O", p |-> "P", q |-> "Q", r |-> "R",
     s |-> "S", t |-> "T", u |-> "U", v |-> "V", w |-> "W", x |-> "X",
     y |-> "Y", z |-> "Z"]

LowerOf ==
    [A |-> "a", B |-> "b", C |-> "c", D |-> "d", E |-> "e", F |-> "f",
     G |-> "g", H |-> "h", I |-> "i", J |-> "j", K |-> "k", L |-> "l",
     M |-> "m", N |-> "n", O |-> "o", P |-> "p", Q |-> "q", R |-> "r",
     S |-> "s", T |-> "t", U |-> "u", V |-> "v", W |-> "w", X |-> "x",
     Y |-> "y", Z |-> "z"]

CharAt(s, i) == SubSeq(s, i, i)

LowerLetters == DOMAIN UpperOf
UpperLetters == DOMAIN LowerOf

UpperChar(c) == IF c \in LowerLetters THEN UpperOf[c] ELSE c

LowerChar(c) == IF c \in UpperLetters THEN LowerOf[c] ELSE c

RECURSIVE UpperFrom(_, _)
UpperFrom(s, i) ==
    IF i > Len(s) THEN "" ELSE UpperChar(CharAt(s, i)) \o UpperFrom(s, i + 1)

\* str.upper
Upper(s) == UpperFrom(s, 1)

RECURSIVE LowerFrom(_, _)
LowerFrom(s, i) ==
    IF i > Len(s) THEN "" ELSE LowerChar(CharAt(s, i)) \o LowerFrom(s, i + 1)

\* str.lower
Lower(s) == LowerFrom(s, 1)

RECURSIVE LStrip(_)
LStrip(s) ==
    IF s # "" /\ CharAt(s, 1) = " " THEN LStrip(SubSeq(s, 2, Len(s))) ELSE s

RECURSIVE RStrip(_)
RStrip(s) ==
    IF s # "" /\ CharAt(s, Len(s)) = " " THEN RStrip(SubSeq(s, 1, Len(s) - 1)) ELSE s

Strip(s) == RStrip(LStrip(s))

Digits == "0123456789"

DigitStr(d) == CharAt(Digits, d + 1)

RECURSIVE NatToStr(_)
NatToStr(n) == IF n < 10 THEN DigitStr(n) ELSE NatToStr(n \div 10) \o DigitStr(n % 10)

\* f"{n:0{w}d}"
ZeroPad(n, w) ==
    IF Len(NatToStr(n)) >= w THEN NatToStr(n)
    ELSE SubSeq("000000", 1, w - Len(NatToStr(n))) \o NatToStr(n)

IsDigit(c) == \E d \in 0..9 : DigitStr(d) = c

DigitVal(c) == CHOOSE d \in 0..9 : DigitStr(d) = c

IsNumeric(s) == s # "" /\ \A i \in 1..Len(s) : IsDigit(CharAt(s, i))

RECURSIVE StrToNat(_)
StrToNat(s) ==
    IF Len(s) = 1 THEN DigitVal(s)
    ELSE 10 * StrToNat(SubSeq(s, 1, Len(s) - 1)) + DigitVal(CharAt(s, Len(s)))

\* pd.isna / pd.notna of a cell: a blank cell is read as NaN
IsNa(v) == v = ""

\* DataProcessor._safe_float on the text of a cell: float(value), 0.0 when
\* the value is NaN or not a number (cells of the model hold unsigned
\* whole numbers or words)
SafeFloat(v) == IF IsNa(v) THEN 0 ELSE IF IsNumeric(Strip(v)) THEN StrToNat(Strip(v)) ELSE 0

(***************************************************************************)
(* Sheet classifier (the later definitions of data_processor.py win).      *)
(***************************************************************************)
SalesIndicators ==
    <<"invoice", "sale", "amount", "product", "quantity", "rate",
      "total", "price", "bill", "payment", "item", "qty">>

PaymentIndicators ==
    <<"payment", "paid", "amount", "invoice", "date", "method",
      "cash", "gpay", "cheque", "bank", "rrn", "reference">>

CustomerIndicators ==
    <<"customer", "name", "mobile", "phone", "village", "taluka",
      "district", "code", "contact">>

DistributorIndicators ==
    <<"distributor", "mantri", "sabhasad", "contact_in_group",
      "village", "taluka", "district", "leader", "team", "sabh">>

\* columns_lower = [str(col).lower() for col in df.columns]
RECURSIVE ColumnsLower(_)
ColumnsLower(columns) ==
    IF columns = <<>> THEN <<>>
    ELSE <<Lower(Head(columns))>> \o ColumnsLower(Tail(columns))

\* number of indicators that occur in at least one column label
Score(indicators, columns) ==
    LET columns_lower == ColumnsLower(columns)
    IN Cardinality({k \in DOMAIN indicators :
        \E i \in DOMAIN columns_lower : Contains(columns_lower[i], indicators[k])})

SalesThreshold == 2
PaymentThreshold == 2
CustomerThreshold == 2
DistributorThreshold == 1

IsSalesSheet(columns) == Score(SalesIndicators, columns) >= SalesThreshold

IsPaymentSheet(columns) == Score(PaymentIndicators, columns) >= PaymentThreshold

IsCustomerSheet(columns) == Score(CustomerIndicators, columns) >= CustomerThreshold

IsDistributorSheet(columns) == Score(DistributorIndicators, columns) >= DistributorThreshold

\* the if/elif chain of process_excel_file; "Unknown" runs no extractor
Dispatch(columns) ==
    IF IsPaymentSheet(columns) THEN "Payment"
    ELSE IF IsSalesSheet(columns) THEN "Sales"
    ELSE IF IsDistributorSheet(columns) THEN "Distributor"
    ELSE IF IsCustomerSheet(columns) THEN "Customer"
    ELSE "Unknown"

\* the if/elif chain of process_single_sheet, which falls back to customers
SingleSheetDispatch(columns) ==
    IF IsSalesSheet(columns) THEN "Sales"
    ELSE IF IsCustomerSheet(columns) THEN "Customer"
    ELSE IF IsDistributorSheet(columns) THEN "Distributor"
    ELSE "Customer"

(***************************************************************************)
(* _clean_dataframe: drop all-blank rows, then all-blank columns, then     *)
(* strip and upper-case the column labels.  A dataframe is                 *)
(* [columns |-> labels, rows |-> sequence of rows of cells].               *)
(***************************************************************************)
RECURSIVE SelectIdx(_, _, _)
SelectIdx(seq, keep, i) ==
    IF i > Len(seq) THEN <<>>
    ELSE IF i \in keep THEN <<seq[i]>> \o SelectIdx(seq, keep, i + 1)
    ELSE SelectIdx(seq, keep, i + 1)

RECURSIVE SelectCols(_, _)
SelectCols(rows, keep) ==
    IF rows = <<>> THEN <<>>
    ELSE <<SelectIdx(Head(rows), keep, 1)>> \o SelectCols(Tail(rows), keep)

RECURSIVE CleanLabels(_)
CleanLabels(labels) ==
    IF labels = <<>> THEN <<>>
    ELSE <<Upper(Strip(Head(labels)))>> \o CleanLabels(Tail(labels))

CleanDataframe(df) ==
    LET keptRows == {r \in DOMAIN df.rows : \E j \in DOMAIN df.rows[r] : ~IsNa(df.rows[r][j])}
        rows1 == SelectIdx(df.rows, keptRows, 1)
        keptCols == {j \in DOMAIN df.columns : \E r \in DOMAIN rows1 : ~IsNa(rows1[r][j])}
    IN [columns |-> CleanLabels(SelectIdx(df.columns, keptCols, 1)),
        rows |-> SelectCols(rows1, keptCols)]

(***************************************************************************)
(* State.                                                                  *)
(*   customers .. payments  the tables of the store                        *)
(*   product_mapping        DataProcessor.product_mapping                  *)
(*   files                  the workbooks of the data folder, each sheet   *)
(*                          as read, cleaned and classified                *)
(*   time                   wall-clock seconds                             *)
(*   ops                    number of calls made so far                    *)
(*   last                   the most recent call: its arguments, what it   *)
(*                          returned, the store before it and, for an      *)
(*                          import, the per-sheet log: the kind of the     *)
(*                          sheet, the extractors run, the extractor's     *)
(*                          result and whether the store changed           *)
(*   issued                 the numbers generate_invoice_number returned   *)
(*                          to the sales page, in the order of the calls   *)
(*   sessions               add_customer calls of two sessions on the same *)
(*                          store, each between its check and its insert   *)
(*   sheet_row, record      a sheet row given to SalesDataProcessor and    *)
(*                          the record standardize_record made of it       *)
(*   is_logging, call,      the _is_logging flag of a DatabaseManager, its *)
(*   system_logs            call in progress and the number of log rows    *)
(***************************************************************************)
VARIABLES customers, distributors, sales, sale_items, payments, product_mapping,
          files, time, ops, last, issued,
          sessions, sheet_row, record, is_logging, call, system_logs

(***************************************************************************)
(* The relational store.  db is the record of the tables                   *)
(* [customers, distributors, sales, sale_items, payments], each a sequence *)
(* of rows in rowid order.  Nothing in the modelled code deletes a row, so *)
(* an AUTOINCREMENT key is the length of the table plus one.               *)
(***************************************************************************)
EmptyDb ==
    [customers |-> <<>>, distributors |-> <<>>, sales |-> <<>>,
     sale_items |-> <<>>, payments |-> <<>>]

\* initialize_default_data: the seeded products, product_id = position
DefaultProducts ==
    <<"1 LTR PLASTIC JAR", "2 LTR PLASTIC JAR", "5 LTR PLASTIC JAR",
      "5 LTR STEEL BARNI", "10 LTR STEEL BARNI", "20 LTR STEEL BARNI",
      "20 LTR PLASTIC CAN", "1 LTR PET BOTTLE">>

\* SELECT last_insert_rowid() through execute_query: every query runs on
\* a connection of its own, opened and closed by _execute_query_internal,
\* and a fresh connection has inserted nothing
LastInsertRowid == 0

\* datetime.now().strftime('%Y%m%d%H%M%S'): the clock counts seconds
Timestamp(clock) == ZeroPad(clock, 2)

\* random.randint(100, 999), drawn as r
RandomCode(r) == NatToStr(99 + r)

\* the (month, year) bucket of datetime.now(), '%m' then '%y'
CurrentMMYY == "0125"

\* _execute_query_internal on INSERT INTO customers: the UNIQUE
\* customer_code makes sqlite3 raise IntegrityError and roll back
InsertCustomerInternal(db, row) ==
    IF \E i \in DOMAIN db.customers : db.customers[i].customer_code = row.customer_code
    THEN [raised |-> TRUE, db |-> db]
    ELSE [raised |-> FALSE,
          db |-> [db EXCEPT !.customers =
                    Append(@, [row EXCEPT !.customer_id = Len(db.customers) + 1])]]

\* execute_query: any exception of the internal call is logged and
\* swallowed, the caller gets [] and no exception
ExecuteInsertCustomer(db, row) ==
    [raised |-> FALSE, db |-> InsertCustomerInternal(db, row).db]

MaxAttempts == 5

\* the retry loop of add_customer: leaves at the first attempt that does
\* not raise; on IntegrityError regenerates the code while attempts remain
RECURSIVE InsertCustomerAttempts(_, _, _, _, _)
InsertCustomerAttempts(db, row, attempt, clock, r) ==
    LET res == ExecuteInsertCustomer(db, row)
    IN IF ~res.raised THEN [raised |-> FALSE, db |-> res.db]
       ELSE IF attempt < MaxAttempts - 1
       THEN InsertCustomerAttempts(db,
                [row EXCEPT !.customer_code = "CUST" \o Timestamp(clock) \o NatToStr(999 + r + attempt)],
                attempt + 1, clock, r)
       ELSE [raised |-> TRUE, db |-> db]

\* an existence check that looks at the mobile number only
ExistingCustomersByMobile(db, name, mobile, village) ==
    {i \in DOMAIN db.customers : db.customers[i].mobile = mobile}

\* the rows the existence check of add_customer selects
ExistingCustomers(db, name, mobile, village) ==
    {i \in DOMAIN db.customers :
        \/ db.customers[i].mobile = mobile
        \/ (db.customers[i].name = name /\ db.customers[i].village = village)}

\* DatabaseManager.add_customer: [db |-> store after the call,
\* ret |-> the values the call may return].  The SELECT has no ORDER BY, so
\* with several matching rows any of their ids may come first.  code = ""
\* stands for customer_code=None.
AddCustomer(db, name, mobile, village, taluka, district, code, clock, r) ==
    LET customer_code == IF code = "" THEN "CUST" \o Timestamp(clock) \o RandomCode(r) ELSE code
        existing == ExistingCustomers(db, name, mobile, village)
        row == [customer_id |-> 0, customer_code |-> customer_code, name |-> name,
                mobile |-> mobile, village |-> village, taluka |-> taluka,
                district |-> district]
        ins == InsertCustomerAttempts(db, row, 0, clock, r)
    IN IF existing # {}
       THEN [db |-> db, ret |-> {db.customers[i].customer_id : i \in existing}]
       ELSE IF ins.raised THEN [db |-> ins.db, ret |-> {-1}]
       ELSE [db |-> ins.db, ret |-> {LastInsertRowid}]

ExistingDistributors(db, name, village, taluka) ==
    {i \in DOMAIN db.distributors :
        /\ db.distributors[i].name = name
        /\ db.distributors[i].village = village
        /\ db.distributors[i].taluka = taluka}

\* INSERT [OR REPLACE] INTO distributors: the table has no UNIQUE
\* constraint besides its AUTOINCREMENT key, which the statement does not
\* give, so nothing conflicts and a row is always added
InsertDistributor(db, row) ==
    [db EXCEPT !.distributors =
        Append(@, [row EXCEPT !.distributor_id = Len(db.distributors) + 1])]

\* DatabaseManager.add_distributor
AddDistributor(db, row) ==
    LET existing == ExistingDistributors(db, row.name, row.village, row.taluka)
    IN IF existing # {}
       THEN [db |-> db, ret |-> {db.distributors[i].distributor_id : i \in existing}]
       ELSE [db |-> InsertDistributor(db, row), ret |-> {LastInsertRowid}]

RECURSIVE SumSeq(_)
SumSeq(seq) == IF seq = <<>> THEN 0 ELSE Head(seq) + SumSeq(Tail(seq))

PaidFor(db, sale_id) ==
    SumSeq([i \in DOMAIN db.payments |->
        IF db.payments[i].sale_id = sale_id THEN db.payments[i].amount ELSE 0])

\* DatabaseManager._update_payment_status
UpdatePaymentStatus(db, sale_id) ==
    LET total_paid == PaidFor(db, sale_id)
        status(sale_total) ==
            IF total_paid >= sale_total THEN "Paid"
            ELSE IF total_paid > 0 THEN "Partial" ELSE "Pending"
    IN [db EXCEPT !.sales = [i \in DOMAIN db.sales |->
            IF db.sales[i].sale_id = sale_id
            THEN [db.sales[i] EXCEPT !.payment_status = status(db.sales[i].total_amount)]
            ELSE db.sales[i]]]

\* add_sale with the sale total taken from the first item alone
AddSaleFirstItemTotal(db, invoice_no, customer_id, items) ==
    LET sale_id == Len(db.sales) + 1
        sale == [sale_id |-> sale_id, invoice_no |-> invoice_no, customer_id |-> customer_id,
                 total_amount |-> items[1].quantity * items[1].rate,
                 payment_status |-> "Pending"]
        rows == [i \in DOMAIN items |->
                    [sale_id |-> sale_id, product_id |-> items[i].product_id,
                     quantity |-> items[i].quantity, rate |-> items[i].rate,
                     amount |-> items[i].quantity * items[i].rate]]
    IN IF \E i \in DOMAIN db.sales : db.sales[i].invoice_no = invoice_no
       THEN [raised |-> TRUE, db |-> db, sale_id |-> 0]
       ELSE [raised |-> FALSE,
             db |-> [db EXCEPT !.sales = Append(@, sale), !.sale_items = @ \o rows],
             sale_id |-> sale_id]

\* add_sale with the item rows written outside the transaction: they stay
\* when the insert of the sale fails
AddSaleItemsOutsideTransaction(db, invoice_no, customer_id, items) ==
    LET sale_id == Len(db.sales) + 1
        total_amount == SumSeq([i \in DOMAIN items |-> items[i].quantity * items[i].rate])
        sale == [sale_id |-> sale_id, invoice_no |-> invoice_no, customer_id |-> customer_id,
                 total_amount |-> total_amount, payment_status |-> "Pending"]
        rows == [i \in DOMAIN items |->
                    [sale_id |-> sale_id, product_id |-> items[i].product_id,
                     quantity |-> items[i].quantity, rate |-> items[i].rate,
                     amount |-> items[i].quantity * items[i].rate]]
    IN IF \E i \in DOMAIN db.sales : db.sales[i].invoice_no = invoice_no
       THEN [raised |-> TRUE, db |-> [db EXCEPT !.sale_items = @ \o rows], sale_id |-> 0]
       ELSE [raised |-> FALSE,
             db |-> [db EXCEPT !.sales = Append(@, sale), !.sale_items = @ \o rows],
             sale_id |-> sale_id]

\* DatabaseManager.add_sale (no payments given): one transaction; a
\* duplicate invoice_no raises IntegrityError, rolls back and re-raises
AddSale(db, invoice_no, customer_id, items) ==
    LET sale_id == Len(db.sales) + 1
        total_amount == SumSeq([i \in DOMAIN items |-> items[i].quantity * items[i].rate])
        sale == [sale_id |-> sale_id, invoice_no |-> invoice_no, customer_id |-> customer_id,
                 total_amount |-> total_amount, payment_status |-> "Pending"]
        rows == [i \in DOMAIN items |->
                    [sale_id |-> sale_id, product_id |-> items[i].product_id,
                     quantity |-> items[i].quantity, rate |-> items[i].rate,
                     amount |-> items[i].quantity * items[i].rate]]
    IN IF \E i \in DOMAIN db.sales : db.sales[i].invoice_no = invoice_no
       THEN [raised |-> TRUE, db |-> db, sale_id |-> 0]
       ELSE [raised |-> FALSE,
             db |-> UpdatePaymentStatus(
                        [db EXCEPT !.sales = Append(@, sale), !.sale_items = @ \o rows],
                        sale_id),
             sale_id |-> sale_id]

\* SQLite LIKE 'prefix%' (ASCII case-insensitive)
LikePrefix(s, prefix) == StartsWith(Lower(s), Lower(prefix))

\* DatabaseManager.generate_invoice_number (the second definition)
GenerateInvoiceNumber(db, prefix) ==
    LET bucket == prefix \o CurrentMMYY
        hits == {i \in DOMAIN db.sales : LikePrefix(db.sales[i].invoice_no, bucket)}
        last_invoice == db.sales[CHOOSE i \in hits : \A j \in hits : j <= i].invoice_no
        serial_part == SubSeq(last_invoice, Len(prefix) + 5, Len(last_invoice))
        new_serial ==
            IF hits = {} THEN 1
            ELSE IF IsNumeric(serial_part) THEN StrToNat(serial_part) + 1 ELSE 1
    IN bucket \o ZeroPad(new_serial, 3)

(***************************************************************************)
(* Row extractors.  columns are the cleaned labels of the sheet, row the   *)
(* cells of one row (position 0 of the code is position 1 here).  An       *)
(* extraction state st is [db, processed_rows, clock, trace]; when tick    *)
(* holds the wall clock advances by one second from one row to the next.   *)
(***************************************************************************)
HeaderIndicators ==
    <<"DATE", "VILLAGE", "TALUKA", "DISTRICT", "MANTRI",
      "SABHASAD", "CONTACT", "TOTAL", "SR", "NO", "NAME">>

\* DataProcessor._is_header_row
IsHeaderRow(row) ==
    IF Len(row) = 0 THEN TRUE
    ELSE LET first_value_upper == Upper(row[1])
         IN \E k \in DOMAIN HeaderIndicators :
                Contains(first_value_upper, HeaderIndicators[k])

\* the guard every extractor puts first: header row or blank first cell
SkipRow(row) == IsHeaderRow(row) \/ IsNa(row[1])

\* DataProcessor._extract_sales_value
ExtractSalesValue(columns, row, field_name, default_index, default_value) ==
    LET named == {j \in DOMAIN columns :
                    Contains(Lower(columns[j]), field_name) /\ ~IsNa(row[j])}
    IN IF named # {}
       THEN Strip(row[CHOOSE j \in named : \A k \in named : j <= k])
       ELSE IF Len(row) > default_index /\ ~IsNa(row[default_index + 1])
       THEN Strip(row[default_index + 1])
       ELSE default_value

\* DataProcessor._safe_get
SafeGet(columns, row, column_name, default_index) ==
    LET named == {j \in DOMAIN columns : columns[j] = column_name}
    IN IF named # {}
       THEN Strip(row[CHOOSE j \in named : \A k \in named : j <= k])
       ELSE IF Len(row) > default_index THEN Strip(row[default_index + 1])
       ELSE ""

\* DataProcessor._safe_get_int
SafeGetInt(columns, row, column_name, default_index) ==
    LET str_value == SafeGet(columns, row, column_name, default_index)
    IN IF IsNumeric(str_value) THEN StrToNat(str_value) ELSE 0

\* DataProcessor._extract_distributor_name
ExtractDistributorName(columns, row) ==
    LET village == SafeGet(columns, row, "Village", 1)
        taluka == SafeGet(columns, row, "Taluka", 2)
    IN IF village # "" /\ taluka # "" THEN village \o " - " \o taluka
       ELSE IF village # "" THEN village
       ELSE IF taluka # "" THEN taluka
       ELSE "Unknown Distributor"

RECURSIVE UpperAll(_)
UpperAll(seq) ==
    IF seq = <<>> THEN <<>> ELSE <<Upper(Head(seq))>> \o UpperAll(Tail(seq))

\* DataProcessor._create_product_mapping, run once by __init__: the
\* upper-cased product names, product_id = position
CreateProductMapping == UpperAll(DefaultProducts)

\* DataProcessor._get_product_id; 0 stands for None
GetProductId(product_name) ==
    LET clean_name == Strip(Upper(product_name))
        hits == {i \in DOMAIN product_mapping : product_mapping[i] = clean_name}
    IN IF hits = {} THEN 0 ELSE CHOOSE i \in hits : TRUE

\* DataProcessor._get_or_create_customer; id 0 stands for None
GetOrCreateCustomer(db, name, mobile, village, taluka, district, clock) ==
    LET found == {i \in DOMAIN db.customers :
                    db.customers[i].name = name /\ db.customers[i].mobile = mobile}
        customer_code == "CUST_" \o Timestamp(clock)
        db1 == AddCustomer(db, name, mobile, village, taluka, district, customer_code, clock, 1).db
        made == {i \in DOMAIN db1.customers : db1.customers[i].customer_code = customer_code}
    IN IF found # {}
       THEN [db |-> db, id |-> db.customers[CHOOSE i \in found : \A k \in found : i <= k].customer_id]
       ELSE [db |-> db1,
             id |-> IF made = {} THEN 0 ELSE db1.customers[CHOOSE i \in made : TRUE].customer_id]

Cell(row, i, default) == IF Len(row) >= i /\ ~IsNa(row[i]) THEN row[i] ELSE default

\* position of the first "(" of s, 0 when there is none
FirstParen(s) ==
    IF Contains(s, "(")
    THEN CHOOSE i \in 1..Len(s) : CharAt(s, i) = "(" /\ \A k \in 1..(i - 1) : CharAt(s, k) # "("
    ELSE 0

RECURSIVE RemoveChar(_, _)
RemoveChar(s, c) ==
    IF s = "" THEN ""
    ELSE IF CharAt(s, 1) = c THEN RemoveChar(SubSeq(s, 2, Len(s)), c)
    ELSE CharAt(s, 1) \o RemoveChar(SubSeq(s, 2, Len(s)), c)

\* name.split("(")[0] and [1] of process_customer_sheet
SplitName(name) ==
    LET i == FirstParen(name)
        rest == SubSeq(name, i + 1, Len(name))
        j == FirstParen(rest)
        part1 == IF j = 0 THEN rest ELSE SubSeq(rest, 1, j - 1)
    IN [name |-> Strip(SubSeq(name, 1, i - 1)),
        village |-> Strip(RemoveChar(part1, ")"))]

\* one iteration of the row loop of process_customer_sheet
ProcessCustomerRow(st, columns, row, index) ==
    LET customer_code == Cell(row, 1, "")
        name0 == Cell(row, 2, "Unknown")
        mobile == Cell(row, 3, "")
        village0 == Cell(row, 4, "")
        taluka == Cell(row, 5, "")
        district == Cell(row, 6, "")
        split == village0 = "" /\ Contains(name0, "(")
        name == IF split THEN SplitName(name0).name ELSE name0
        village == IF split THEN SplitName(name0).village ELSE village0
        res == AddCustomer(st.db, name, mobile, village, taluka, district,
                           customer_code, st.clock, 1)
        counted == \A v \in res.ret : v # 0 /\ v # -1
    IN IF SkipRow(row) THEN st
       ELSE IF name = "" \/ name = "Unknown" THEN st
       ELSE [st EXCEPT !.db = res.db,
                       !.processed_rows = IF counted THEN @ + 1 ELSE @]

\* one iteration of the row loop of process_distributor_sheet
ProcessDistributorRow(st, columns, row, index) ==
    LET name0 == ExtractDistributorName(columns, row)
        village == SafeGet(columns, row, "Village", 1)
        taluka == SafeGet(columns, row, "Taluka", 2)
        name == IF name0 = "" THEN village \o " - " \o taluka ELSE name0
        drow == [distributor_id |-> 0, name |-> name, village |-> village, taluka |-> taluka,
                 district |-> SafeGet(columns, row, "District", 3),
                 mantri_name |-> SafeGet(columns, row, "Mantri_Name", 4),
                 mantri_mobile |-> SafeGet(columns, row, "Mantri_Mobile", 5),
                 sabhasad_count |-> SafeGetInt(columns, row, "Sabhasad", 6),
                 contact_in_group |-> SafeGetInt(columns, row, "Contact_In_Group", 7)]
    IN IF SkipRow(row) THEN st
       ELSE IF village = "" \/ taluka = "" THEN st
       ELSE [st EXCEPT !.db = InsertDistributor(st.db, drow),
                       !.processed_rows = @ + 1]

\* process_sales_sheet, the end of an iteration: the outcome of add_sale
SalesRowAdded(st, cust, sale) ==
    IF sale.raised THEN [st EXCEPT !.db = cust.db]
    ELSE [st EXCEPT !.db = sale.db,
                    !.processed_rows = IF sale.sale_id > 0 THEN @ + 1 ELSE @]

\* a store part that does not look the product up
SalesRowStoreAnyProduct(st, invoice0, cust, product_id, quantity, amount) ==
    IF cust.id = 0 THEN [st EXCEPT !.db = cust.db]
    ELSE SalesRowAdded(st, cust,
            AddSale(cust.db, invoice0, cust.id,
                    <<[product_id |-> product_id, quantity |-> quantity,
                       rate |-> amount \div quantity]>>))

\* process_sales_sheet, the store part of an iteration: the customer has
\* been looked up or created; the product check, the invoice number and
\* add_sale follow
SalesRowStore(st, invoice0, cust, product_id, quantity, amount) ==
    IF cust.id = 0 THEN [st EXCEPT !.db = cust.db]
    ELSE IF product_id = 0 THEN [st EXCEPT !.db = cust.db]
    ELSE SalesRowAdded(st, cust,
            AddSale(cust.db,
                    IF invoice0 = "" \/ StartsWith(invoice0, "INV_")
                    THEN GenerateInvoiceNumber(cust.db, "INVCL") ELSE invoice0,
                    cust.id,
                    <<[product_id |-> product_id, quantity |-> quantity,
                       rate |-> amount \div quantity]>>))

\* process_sales_sheet, the validation gates on the extracted values
SalesRowChecked(st, invoice0, customer_name, product_name, quantity, amount) ==
    IF customer_name = "" \/ customer_name = "Unknown Customer" THEN st
    ELSE IF quantity <= 0 THEN st
    ELSE IF amount <= 0 THEN st
    ELSE SalesRowStore(st, invoice0,
            GetOrCreateCustomer(st.db, customer_name, "", "", "", "", st.clock),
            GetProductId(product_name), quantity, amount)

\* one iteration of the row loop of process_sales_sheet (second definition)
ProcessSalesRow(st, columns, row, index) ==
    IF SkipRow(row) THEN st
    ELSE SalesRowChecked(st,
            ExtractSalesValue(columns, row, "invoice", 0,
                "INV_" \o Timestamp(st.clock) \o "_" \o NatToStr(index)),
            ExtractSalesValue(columns, row, "customer", 1, "Unknown Customer"),
            ExtractSalesValue(columns, row, "product", 2, "Unknown Product"),
            SafeFloat(ExtractSalesValue(columns, row, "quantity", 3, "0")),
            SafeFloat(ExtractSalesValue(columns, row, "amount", 4, "0")))

\* a payment row stored without looking the sale up
ProcessPaymentRowAnyInvoice(st, columns, row, index) ==
    LET invoice_no == ExtractSalesValue(columns, row, "invoice", 0, "")
        amount == SafeFloat(ExtractSalesValue(columns, row, "amount", 1, "0"))
        payment == [payment_id |-> Len(st.db.payments) + 1, sale_id |-> 0,
                    payment_date |-> "today", payment_method |-> "Cash",
                    amount |-> amount]
    IN IF SkipRow(row) THEN st
       ELSE IF invoice_no # "" /\ amount > 0
       THEN [st EXCEPT !.db.payments = Append(@, payment), !.processed_rows = @ + 1]
       ELSE st

\* one iteration of the row loop of process_payment_sheet
ProcessPaymentRow(st, columns, row, index) ==
    LET invoice_no == ExtractSalesValue(columns, row, "invoice", 0, "")
        amount == SafeFloat(ExtractSalesValue(columns, row, "amount", 1, "0"))
        payment_date == ExtractSalesValue(columns, row, "date", 2, "today")
        payment_method == ExtractSalesValue(columns, row, "method", 3, "Cash")
        hits == {i \in DOMAIN st.db.sales : st.db.sales[i].invoice_no = invoice_no}
        sale_id == st.db.sales[CHOOSE i \in hits : \A k \in hits : i <= k].sale_id
        payment == [payment_id |-> Len(st.db.payments) + 1, sale_id |-> sale_id,
                    payment_date |-> payment_date, payment_method |-> payment_method,
                    amount |-> amount]
    IN IF SkipRow(row) THEN st
       ELSE IF invoice_no # "" /\ amount > 0 /\ hits # {}
       THEN [st EXCEPT !.db.payments = Append(@, payment), !.processed_rows = @ + 1]
       ELSE st

ProcessRow(kind, st, columns, row, index) ==
    CASE kind = "Payment" -> ProcessPaymentRow(st, columns, row, index)
      [] kind = "Sales" -> ProcessSalesRow(st, columns, row, index)
      [] kind = "Distributor" -> ProcessDistributorRow(st, columns, row, index)
      [] kind = "Customer" -> ProcessCustomerRow(st, columns, row, index)

\* the end of one iteration: st before the row, st1 after it.  The trace
\* keeps, row by row, how many sales, sale items, customers and
\* distributors the store held before and after the row, and whether the
\* row changed the store at all.
RowDone(st, st1, tick) ==
    [st1 EXCEPT !.clock = IF tick THEN @ + 1 ELSE @,
                !.trace = Append(@, [sales_before |-> Len(st.db.sales),
                                     sales_after |-> Len(st1.db.sales),
                                     items_before |-> Len(st.db.sale_items),
                                     items_after |-> Len(st1.db.sale_items),
                                     customers_before |-> Len(st.db.customers),
                                     customers_after |-> Len(st1.db.customers),
                                     distributors_before |-> Len(st.db.distributors),
                                     distributors_after |-> Len(st1.db.distributors),
                                     changed |-> st1.db # st.db])]

\* for index, row in df.iterrows(): from row i on
RECURSIVE ProcessRows(_, _, _, _, _)
ProcessRows(kind, st, df, i, tick) ==
    IF i > Len(df.rows) THEN st
    ELSE ProcessRows(kind,
            RowDone(st, ProcessRow(kind, st, df.columns, df.rows[i], i - 1), tick),
            df, i + 1, tick)

\* process_payment_sheet / process_sales_sheet / process_distributor_sheet /
\* process_customer_sheet: [db, clock, processed |-> processed_rows > 0,
\* rows |-> the trace of the row loop]
SheetResult(st) ==
    [db |-> st.db, clock |-> st.clock, processed |-> st.processed_rows > 0,
     rows |-> st.trace]

ProcessSheet(kind, db, df, clock, tick) ==
    SheetResult(ProcessRows(kind,
        [db |-> db, processed_rows |-> 0, clock |-> clock, trace |-> <<>>], df, 1, tick))

(***************************************************************************)
(* Import orchestrator.  A workbook is a sequence of sheets                *)
(* [columns, rows, corrupt]; corrupt = pd.read_excel raises on the sheet.  *)
(***************************************************************************)
\* the body of the for loop of process_excel_file over the sheets as
\* LoadSheet gives them, from sheet i on.  The only try/except of the
\* function encloses the whole loop: an exception while reading a sheet
\* leaves the loop (raised), whatever was processed before.
SheetSkipped(st, i) ==
    [st EXCEPT !.log = Append(@, [sheet |-> i, kind |-> "Unknown",
                                  ran |-> <<>>, processed |-> FALSE,
                                  persisted |-> FALSE, rows |-> <<>>])]

SheetDone(st, i, kind, res) ==
    [st EXCEPT !.db = res.db, !.clock = res.clock,
               !.processed_sheets = IF res.processed THEN @ + 1 ELSE @,
               !.log = Append(@, [sheet |-> i, kind |-> kind,
                                  ran |-> <<kind>>, processed |-> res.processed,
                                  persisted |-> res.db # st.db, rows |-> res.rows])]

RECURSIVE ProcessSheets(_, _, _, _)
ProcessSheets(st, loaded, i, tick) ==
    IF i > Len(loaded) THEN [st EXCEPT !.result = st.processed_sheets > 0]
    ELSE IF loaded[i].corrupt THEN [st EXCEPT !.raised = TRUE]
    ELSE IF loaded[i].kind = "Unknown"
    THEN ProcessSheets(SheetSkipped(st, i), loaded, i + 1, tick)
    ELSE ProcessSheets(
            SheetDone(st, i, loaded[i].kind,
                ProcessSheet(loaded[i].kind, st.db, loaded[i].df_clean, st.clock, tick)),
            loaded, i + 1, tick)

\* the try block of process_excel_file: pd.ExcelFile raises on a file
\* that does not open, then the sheet loop runs
ProcessExcelFileBody(db, file, clock, tick) ==
    IF ~file.opens
    THEN [db |-> db, clock |-> clock, processed_sheets |-> 0, log |-> <<>>,
          result |-> FALSE, aborted |-> FALSE, raised |-> TRUE]
    ELSE ProcessSheets([db |-> db, clock |-> clock, processed_sheets |-> 0, log |-> <<>>,
                        result |-> FALSE, aborted |-> FALSE, raised |-> FALSE],
                       file.sheets, 1, tick)

\* a handler that lets the exception through
NoHandler(st) == st

\* except Exception of process_excel_file: the exception ends here and the
\* call returns False
ExceptHandler(st) ==
    IF st.raised THEN [st EXCEPT !.raised = FALSE, !.result = FALSE, !.aborted = TRUE]
    ELSE st

\* DataProcessor.process_excel_file (the second definition)
ProcessExcelFile(db, file, clock, tick) ==
    ExceptHandler(ProcessExcelFileBody(db, file, clock, tick))

\* the store-independent head of the loop body: pd.read_excel,
\* _clean_dataframe and the four _is_*_sheet checks with their priority
LoadSheet(sheet) ==
    IF sheet.corrupt THEN [corrupt |-> TRUE, df_clean |-> <<>>, kind |-> ""]
    ELSE LET df_clean == CleanDataframe(sheet)
         IN [corrupt |-> FALSE, df_clean |-> df_clean, kind |-> Dispatch(df_clean.columns)]

RECURSIVE LoadSheets(_)
LoadSheets(wb) ==
    IF wb = <<>> THEN <<>> ELSE <<LoadSheet(Head(wb))>> \o LoadSheets(Tail(wb))

(***************************************************************************)
(* Inputs of the model.                                                    *)
(***************************************************************************)
Names == {"Ram", "Sita"}
Mobiles == {"", "98"}
Villages == {"", "Anand"}
Talukas == {"Petlad"}

OrderSheet ==
    [columns |-> <<"Invoice", "Customer", "Product", "Qty", "Amount">>,
     rows |-> << <<"A1", "Ram", "5 LTR STEEL BARNI", "2", "1360">> >>,
     corrupt |-> FALSE]

ContactSheet ==
    [columns |-> <<"Name", "Mobile", "Village", "Taluka">>,
     rows |-> << <<"Ram", "98", "Anand", "Petlad">> >>,
     corrupt |-> FALSE]

DistributorSheet ==
    [columns |-> <<"Sr", "Village", "Taluka", "District", "Mantri Name",
                   "Mantri Mobile", "Sabhasad", "Contact In Group">>,
     rows |-> << <<"1", "Anand", "Petlad", "Anand", "Mohan", "97", "10", "4">> >>,
     corrupt |-> FALSE]

\* a distributor sheet with a row that names a village only, a row that
\* names a taluka only and a row that names neither
PartialDistributorSheet ==
    [columns |-> <<"Sr", "Village", "Taluka", "District", "Mantri Name",
                   "Mantri Mobile", "Sabhasad", "Contact In Group">>,
     rows |-> << <<"1", "Borsad", "", "Anand", "Mohan", "97", "10", "4">>,
                 <<"2", "", "Petlad", "Anand", "Kanu", "96", "8", "3">>,
                 <<"3", "", "", "Anand", "Jivan", "95", "6", "2">> >>,
     corrupt |-> FALSE]

PaymentSheet ==
    [columns |-> <<"Invoice", "Amount", "Date", "Method">>,
     rows |-> << <<"B1", "500", "2025-01-05", "Cash">> >>,
     corrupt |-> FALSE]

BillSheet ==
    [columns |-> <<"Bill No", "Customer", "Product", "Qty", "Total">>,
     rows |-> << <<"B1", "Ram", "5 LTR STEEL BARNI", "2", "1360">>,
                 <<"INV_7", "Sita", "1 LTR PET BOTTLE", "1", "85">> >>,
     corrupt |-> FALSE]

GateSheet ==
    [columns |-> <<"Bill No", "Customer", "Product", "Qty", "Total">>,
     rows |-> << <<"G1", "", "5 LTR STEEL BARNI", "2", "1360">>,
                 <<"G2", "Ram", "5 LTR STEEL BARNI", "0", "1360">>,
                 <<"G3", "Ram", "5 LTR STEEL BARNI", "2", "0">>,
                 <<"G4", "Ram", "Mystery Jar XL", "2", "1360">>,
                 <<"G5", "Ram", "5 LTR STEEL BARNI", "2", "1360">> >>,
     corrupt |-> FALSE]

BlankInvoiceSheet ==
    [columns |-> <<"Invoice", "Customer", "Product", "Qty", "Total">>,
     rows |-> << <<"", "Ram Patel", "5 LTR STEEL BARNI", "2", "1360">>,
                 <<"K2", "Sita", "1 LTR PET BOTTLE", "1", "85">> >>,
     corrupt |-> FALSE]

\* a sales sheet whose invoice numbers of the current month are not in
\* serial order
SerialSheet ==
    [columns |-> <<"Invoice", "Customer", "Product", "Qty", "Total">>,
     rows |-> << <<"INVCL0125002", "Ram", "5 LTR STEEL BARNI", "2", "1360">>,
                 <<"INVCL0125001", "Sita", "1 LTR PET BOTTLE", "1", "85">> >>,
     corrupt |-> FALSE]

CodeSheet ==
    [columns |-> <<"Code", "Name", "Mobile">>,
     rows |-> << <<"C1", "Ram", "98">>, <<"C2", "Sita (Anand)", "">> >>,
     corrupt |-> FALSE]

UnknownSheet ==
    [columns |-> <<"Key", "Person", "Cell">>,
     rows |-> << <<"C9", "Gita", "97">> >>,
     corrupt |-> FALSE]

CorruptSheet == [columns |-> <<>>, rows |-> <<>>, corrupt |-> TRUE]

\* a file in which pd.ExcelFile finds no workbook
NotAWorkbook == <<>>

Workbooks ==
    << <<OrderSheet>>, <<ContactSheet>>, <<DistributorSheet>>,
       <<PaymentSheet>>, <<BillSheet>>, <<CodeSheet>>, <<UnknownSheet>>,
       <<DistributorSheet, CorruptSheet, CodeSheet>>, NotAWorkbook,
       <<GateSheet>>, <<BlankInvoiceSheet>>, <<SerialSheet>>,
       <<PartialDistributorSheet>>, <<BillSheet, PaymentSheet>> >>

RowCount(wb) == SumSeq([i \in DOMAIN wb |-> Len(wb[i].rows)])

\* pd.ExcelFile(file_path) and what the loop reads from it
LoadWorkbook(wb) == [opens |-> wb # NotAWorkbook, sheets |-> LoadSheets(wb)]

RECURSIVE LoadAll(_)
LoadAll(wbs) ==
    IF wbs = <<>> THEN <<>> ELSE <<LoadWorkbook(Head(wbs))>> \o LoadAll(Tail(wbs))

vars ==
    <<customers, distributors, sales, sale_items, payments, product_mapping,
      files, time, ops, last, issued,
      sessions, sheet_row, record, is_logging, call, system_logs>>

\* the variables of the import and page calls
store_vars ==
    <<customers, distributors, sales, sale_items, payments, product_mapping,
      files, time, ops, last, issued>>

\* the variables of the interleaved sessions, of the record standardizer
\* and of the logging guard
session_vars == <<sessions>>
record_vars == <<sheet_row, record>>
logging_vars == <<is_logging, call, system_logs>>

Db ==
    [customers |-> customers, distributors |-> distributors, sales |-> sales,
     sale_items |-> sale_items, payments |-> payments]

SetDb(db) ==
    /\ customers' = db.customers
    /\ distributors' = db.distributors
    /\ sales' = db.sales
    /\ sale_items' = db.sale_items
    /\ payments' = db.payments

\* no add_customer call is under way in either session
NoSessions ==
    [s \in {1, 2} |-> [pc |-> "idle", name |-> "", mobile |-> "", village |-> "",
                       customer_code |-> "", r |-> 0, passed |-> FALSE,
                       collided |-> FALSE, inserted |-> FALSE, ret |-> 0]]

\* no row has been given to the record standardizer
NoRow == [QTN |-> "", RATE |-> "", AMT |-> "", FINAL_AMT |-> "", G_PAY |-> "",
          CASH |-> "", CHQ |-> "", PAYMENT_DATE |-> ""]

NoRecord == [made |-> FALSE]

\* no DatabaseManager call is in progress
NoQuery ==
    [pc |-> "idle", op |-> "none", log_action |-> FALSE, query_failed |-> FALSE,
     log_failed |-> FALSE, logged |-> FALSE, skipped |-> FALSE, after_failure |-> FALSE]

NoCall ==
    [op |-> "none", wb |-> 0, name |-> "", mobile |-> "", village |-> "", taluka |-> "",
     ret |-> 0, result |-> FALSE, aborted |-> FALSE, raised |-> FALSE, log |-> <<>>,
     repeat |-> FALSE, before |-> EmptyDb]

Init ==
    /\ customers = <<>>
    /\ distributors = <<>>
    /\ sales = <<>>
    /\ sale_items = <<>>
    /\ payments = <<>>
    /\ product_mapping = CreateProductMapping
    /\ files = LoadAll(Workbooks)
    /\ time = 0
    /\ ops = 0
    /\ last = NoCall
    /\ issued = <<>>
    /\ sessions = NoSessions
    /\ sheet_row = NoRow
    /\ record = NoRecord
    /\ is_logging = FALSE
    /\ call = NoQuery
    /\ system_logs = 0

\* a second of wall-clock time passes between two calls
Tick ==
    /\ time < MaxClock
    /\ time' = time + 1
    /\ UNCHANGED <<customers, distributors, sales, sale_items, payments, product_mapping, files, ops, last, issued,
                   session_vars, record_vars, logging_vars>>

\* db.add_customer(name=..., mobile=..., village=...) as the sales page calls it
CallAddCustomer(name, mobile, village, r) ==
    /\ ops < MaxOps
    /\ LET res == AddCustomer(Db, name, mobile, village, "", "", "", time, r)
       IN /\ SetDb(res.db)
          /\ \E v \in res.ret :
                last' = [NoCall EXCEPT !.op = "add_customer", !.name = name,
                                       !.mobile = mobile, !.village = village,
                                       !.ret = v, !.before = Db]
    /\ ops' = ops + 1
    /\ UNCHANGED <<product_mapping, files, time, issued, session_vars, record_vars, logging_vars>>

\* db.add_distributor(name=..., village=..., taluka=...) as the distributors page calls it
CallAddDistributor(name, village, taluka) ==
    /\ ops < MaxOps
    /\ LET row == [distributor_id |-> 0, name |-> name, village |-> village,
                   taluka |-> taluka, district |-> "", mantri_name |-> "",
                   mantri_mobile |-> "", sabhasad_count |-> 0, contact_in_group |-> 0]
           res == AddDistributor(Db, row)
       IN /\ SetDb(res.db)
          /\ \E v \in res.ret :
                last' = [NoCall EXCEPT !.op = "add_distributor", !.name = name,
                                       !.village = village, !.taluka = taluka,
                                       !.ret = v, !.before = Db]
    /\ ops' = ops + 1
    /\ UNCHANGED <<product_mapping, files, time, issued, session_vars, record_vars, logging_vars>>

\* the store and the record of the call after process_excel_file returned res
Imported(w, res) ==
    /\ SetDb(res.db)
    /\ time' = res.clock
    /\ last' = [NoCall EXCEPT !.op = "import", !.wb = w, !.result = res.result,
                              !.aborted = res.aborted, !.raised = res.raised,
                              !.log = res.log,
                              !.repeat = (last.op = "import" /\ last.wb = w),
                              !.before = Db]

\* data_processor.process_excel_file(file_path) on workbook w
Import(w, tick) ==
    /\ ops < MaxOps
    /\ tick => time + RowCount(Workbooks[w]) <= MaxClock
    /\ Imported(w, ProcessExcelFile(Db, files[w], time, tick))
    /\ ops' = ops + 1
    /\ UNCHANGED <<product_mapping, files, issued, session_vars, record_vars, logging_vars>>

\* the item lists the sales page can submit (one to three product rows,
\* each with product_id, quantity and rate; never empty)
SaleForms ==
    { <<[product_id |-> 4, quantity |-> 2, rate |-> 680]>>,
      <<[product_id |-> 4, quantity |-> 1, rate |-> 680],
        [product_id |-> 8, quantity |-> 2, rate |-> 85]>> }

\* the amounts of the "payment received" box: 0 stands for an unticked box
PaymentAmounts == {0, 100}

\* the store and the record of the call after db.add_sale returned res on
\* the sales page: the payment, when received, is inserted directly
SaleCreated(payment_amount, res) ==
    /\ SetDb(IF ~res.raised /\ res.sale_id > 0 /\ payment_amount > 0
             THEN [res.db EXCEPT !.payments = Append(@,
                      [payment_id |-> Len(res.db.payments) + 1, sale_id |-> res.sale_id,
                       payment_date |-> "today", payment_method |-> "Cash",
                       amount |-> payment_amount])]
             ELSE res.db)
    /\ last' = [NoCall EXCEPT !.op = "create_sale", !.ret = res.sale_id,
                              !.result = ~res.raised, !.before = Db]

\* the "Create Sale" submit of the sales page for an existing customer c
CreateSale(c, invoice_no, items, payment_amount) ==
    /\ ops < MaxOps
    /\ c \in DOMAIN customers
    /\ SaleCreated(payment_amount, AddSale(Db, invoice_no, customers[c].customer_id, items))
    /\ ops' = ops + 1
    /\ UNCHANGED <<product_mapping, files, time, issued, session_vars, record_vars, logging_vars>>

\* a render of the quick-sale tab: the invoice number box is filled with
\* db.generate_invoice_number(); issued keeps the numbers returned, in order
ShowQuickSaleTab ==
    /\ ops < MaxOps
    /\ issued' = Append(issued, GenerateInvoiceNumber(Db, "INVCL"))
    /\ last' = [NoCall EXCEPT !.op = "generate_invoice_number", !.before = Db]
    /\ ops' = ops + 1
    /\ UNCHANGED <<customers, distributors, sales, sale_items, payments, product_mapping,
                   files, time, session_vars, record_vars, logging_vars>>

Next ==
    \/ Tick
    \/ \E name \in Names, mobile \in Mobiles, village \in Villages, r \in 1..MaxRand :
          CallAddCustomer(name, mobile, village, r)
    \/ \E name \in Names, village \in Villages, taluka \in Talukas :
          CallAddDistributor(name, village, taluka)
    \/ \E w \in DOMAIN Workbooks, tick \in BOOLEAN : Import(w, tick)
    \/ \E c \in DOMAIN customers, invoice_no \in {"B1", GenerateInvoiceNumber(Db, "INVCL")},
          items \in SaleForms, payment_amount \in PaymentAmounts :
          CreateSale(c, invoice_no, items, payment_amount)
    \/ ShowQuickSaleTab

Spec == Init /\ [][Next]_vars

(***************************************************************************)
(* Two sessions on one store.  Each session has a DatabaseManager of its   *)
(* own and the sessions share the database file; every query of            *)
(* add_customer opens, commits and closes a connection of its own, so the  *)
(* existence check and the insert of one call are two steps between which  *)
(* the other session may run.                                              *)
(***************************************************************************)
\* a session stops after its existence check found a customer
CheckFound(s, name, mobile, village, id) ==
    sessions' = [sessions EXCEPT ![s] =
        [pc |-> "done", name |-> name, mobile |-> mobile, village |-> village,
         customer_code |-> "", r |-> 0, passed |-> FALSE, collided |-> FALSE,
         inserted |-> FALSE, ret |-> id]]

\* add_customer of session s up to its existence check: the code is
\* generated, then the SELECT runs
CheckCustomer(s, name, mobile, village, r) ==
    /\ ops < MaxOps
    /\ sessions[s].pc \in {"idle", "done"}
    /\ IF ExistingCustomers(Db, name, mobile, village) # {}
       THEN \E i \in ExistingCustomers(Db, name, mobile, village) :
               CheckFound(s, name, mobile, village, customers[i].customer_id)
       ELSE sessions' = [sessions EXCEPT ![s] =
               [pc |-> "insert", name |-> name, mobile |-> mobile, village |-> village,
                customer_code |-> "CUST" \o Timestamp(time) \o RandomCode(r), r |-> r,
                passed |-> TRUE, collided |-> FALSE, inserted |-> FALSE, ret |-> 0]]
    /\ ops' = ops + 1
    /\ UNCHANGED <<customers, distributors, sales, sale_items, payments, product_mapping,
                   files, time, last, issued, record_vars, logging_vars>>

\* the row a session is about to insert
SessionRow(s) ==
    [customer_id |-> 0, customer_code |-> sessions[s].customer_code,
     name |-> sessions[s].name, mobile |-> sessions[s].mobile,
     village |-> sessions[s].village, taluka |-> "", district |-> ""]

\* an insert step that repeats the existence check in the same transaction
InsertStepChecked(db, new_row, clock, r) ==
    IF ExistingCustomers(db, new_row.name, new_row.mobile, new_row.village) # {} THEN db
    ELSE InsertCustomerAttempts(db, new_row, 0, clock, r).db

\* the insert loop of add_customer, run on the store as it is by now
InsertStep(db, new_row, clock, r) ==
    InsertCustomerAttempts(db, new_row, 0, clock, r).db

\* add_customer of session s from its insert on: the INSERT, then
\* SELECT last_insert_rowid() and the return
InsertCustomer(s) ==
    /\ sessions[s].pc = "insert"
    /\ SetDb(InsertStep(Db, SessionRow(s), time, sessions[s].r))
    /\ sessions' = [sessions EXCEPT ![s].pc = "done",
                                    ![s].collided =
                                        \E i \in DOMAIN customers :
                                            customers[i].customer_code = sessions[s].customer_code,
                                    ![s].inserted = Len(customers') > Len(customers),
                                    ![s].ret = LastInsertRowid]
    /\ UNCHANGED <<product_mapping, files, time, ops, last, issued, record_vars, logging_vars>>

NextRace ==
    \/ Tick
    \/ \E s \in DOMAIN sessions, name \in Names, mobile \in Mobiles, village \in Villages,
          r \in 1..MaxRand : CheckCustomer(s, name, mobile, village, r)
    \/ \E s \in DOMAIN sessions : InsertCustomer(s)

SpecRace == Init /\ [][NextRace]_vars

(***************************************************************************)
(* SalesDataProcessor.standardize_record (src/sales_data_processor.py) on  *)
(* the cells of one sheet row.  A row is a record of cell texts, a blank   *)
(* cell the empty string.                                                  *)
(***************************************************************************)
NotAvailable == {"", "NOT_AVAILABLE", "_"}

\* SalesDataProcessor.safe_float
SdpSafeFloat(value) ==
    IF value \in NotAvailable THEN 0
    ELSE IF IsNumeric(value) THEN StrToNat(value) ELSE 0

\* SalesDataProcessor.safe_int
SdpSafeInt(value) == SdpSafeFloat(value)

\* datetime.strptime(date_str, '%Y-%m-%d') succeeds
IsYmd(date_str) ==
    /\ Len(date_str) = 10
    /\ IsNumeric(SubSeq(date_str, 1, 4))
    /\ CharAt(date_str, 5) = "-"
    /\ IsNumeric(SubSeq(date_str, 6, 7))
    /\ CharAt(date_str, 8) = "-"
    /\ IsNumeric(SubSeq(date_str, 9, 10))

\* datetime.strptime(date_str, '%d/%m/%Y') succeeds
IsDmy(date_str) ==
    /\ Len(date_str) = 10
    /\ IsNumeric(SubSeq(date_str, 1, 2))
    /\ CharAt(date_str, 3) = "/"
    /\ IsNumeric(SubSeq(date_str, 4, 5))
    /\ CharAt(date_str, 6) = "/"
    /\ IsNumeric(SubSeq(date_str, 7, 10))

\* SalesDataProcessor.parse_date on the text of a cell
ParseDate(date_str) ==
    IF date_str \in NotAvailable THEN "NOT_AVAILABLE"
    ELSE IF IsDmy(Strip(date_str))
    THEN SubSeq(Strip(date_str), 7, 10) \o "-" \o SubSeq(Strip(date_str), 4, 5)
            \o "-" \o SubSeq(Strip(date_str), 1, 2)
    ELSE IF IsYmd(Strip(date_str)) THEN Strip(date_str)
    ELSE "INVALID_DATE"

\* SalesDataProcessor.calculate_payment_status: reads the cells of the row
CalculatePaymentStatus(r) ==
    LET final_amt == SdpSafeFloat(r.FINAL_AMT)
        paid_amt == SdpSafeFloat(r.G_PAY) + SdpSafeFloat(r.CASH) + SdpSafeFloat(r.CHQ)
    IN IF paid_amt >= final_amt THEN "PAID"
       ELSE IF paid_amt > 0 THEN "PARTIAL_PAID"
       ELSE IF ParseDate(r.PAYMENT_DATE) \notin {"NOT_AVAILABLE", "INVALID_DATE"} THEN "PENDING"
       ELSE "UNPAID"

\* SalesDataProcessor.detect_payment_method
DetectPaymentMethod(r) ==
    IF SdpSafeFloat(r.G_PAY) > 0 THEN "GPAY"
    ELSE IF SdpSafeFloat(r.CASH) > 0 THEN "CASH"
    ELSE IF SdpSafeFloat(r.CHQ) > 0 THEN "CHEQUE"
    ELSE "NOT_PAID"

\* standardize_record, the auto-calculation of the missing amounts
AutoCalculate(rec) ==
    LET amount == IF rec.amount = 0 /\ rec.quantity > 0 /\ rec.rate_per_unit > 0
                  THEN rec.quantity * rec.rate_per_unit ELSE rec.amount
    IN [rec EXCEPT !.amount = amount,
                   !.final_amount = IF rec.final_amount = 0 /\ amount > 0
                                    THEN amount ELSE rec.final_amount]

\* SalesDataProcessor.standardize_record (the amount and payment fields)
StandardizeRecord(r) ==
    AutoCalculate(
        [made |-> TRUE,
         quantity |-> SdpSafeInt(r.QTN),
         rate_per_unit |-> SdpSafeFloat(r.RATE),
         amount |-> SdpSafeFloat(r.AMT),
         final_amount |-> SdpSafeFloat(r.FINAL_AMT),
         payment_date |-> ParseDate(r.PAYMENT_DATE),
         gpay_amount |-> SdpSafeFloat(r.G_PAY),
         cash_amount |-> SdpSafeFloat(r.CASH),
         cheque_amount |-> SdpSafeFloat(r.CHQ),
         payment_status |-> CalculatePaymentStatus(r),
         payment_method |-> DetectPaymentMethod(r)])

\* the rows given to the standardizer
RecordRows ==
    [QTN : {"", "2"}, RATE : {"", "500"}, AMT : {"", "1000"},
     FINAL_AMT : {"", "_", "1000"}, G_PAY : {"", "400"}, CASH : {"", "600"},
     CHQ : {"", "250"}, PAYMENT_DATE : {"", "05/01/2025"}]

InitRecord ==
    /\ customers = <<>>
    /\ distributors = <<>>
    /\ sales = <<>>
    /\ sale_items = <<>>
    /\ payments = <<>>
    /\ product_mapping = CreateProductMapping
    /\ files = <<>>
    /\ time = 0
    /\ ops = 0
    /\ last = NoCall
    /\ issued = <<>>
    /\ sessions = NoSessions
    /\ sheet_row \in RecordRows
    /\ record = NoRecord
    /\ is_logging = FALSE
    /\ call = NoQuery
    /\ system_logs = 0

\* process_dataframe: standardize_record(row, sheet_name, source_file)
Standardize ==
    /\ ~record.made
    /\ record' = StandardizeRecord(sheet_row)
    /\ UNCHANGED <<store_vars, session_vars, sheet_row, logging_vars>>

NextRecord == Standardize

SpecRecord == InitRecord /\ [][NextRecord]_vars

(***************************************************************************)
(* The logging guard of one DatabaseManager: execute_query and             *)
(* log_system_action, statement by statement.  A call runs to its return   *)
(* before the next one starts; the query and the log insert may each       *)
(* raise.  call.pc is "idle" when no call is in progress.                  *)
(***************************************************************************)
\* a call begins: the outcome of the previous call's log insert is kept
Begin(op, log_action) ==
    [NoQuery EXCEPT !.pc = IF op = "execute_query" THEN "query" ELSE "guard",
                    !.op = op, !.log_action = log_action,
                    !.after_failure = call.log_failed]

\* db.execute_query(query, params, log_action) is called
StartExecuteQuery(log_action) ==
    /\ call.pc = "idle"
    /\ system_logs < MaxLogs
    /\ call' = Begin("execute_query", log_action)
    /\ UNCHANGED <<store_vars, session_vars, record_vars, is_logging, system_logs>>

\* execute_query: _execute_query_internal(query, params) raises (the outer
\* except returns []) or returns; then the test of log_action and the flag
RunQuery(fails) ==
    /\ call.pc = "query"
    /\ IF fails
       THEN /\ call' = [call EXCEPT !.pc = "idle", !.query_failed = TRUE]
            /\ UNCHANGED is_logging
       ELSE IF call.log_action /\ ~is_logging
       THEN /\ is_logging' = TRUE
            /\ call' = [call EXCEPT !.pc = "log_insert"]
       ELSE /\ call' = [call EXCEPT !.pc = "idle", !.skipped = call.log_action]
            /\ UNCHANGED is_logging
    /\ UNCHANGED <<store_vars, session_vars, record_vars, system_logs>>

\* db.log_system_action(log_type, message, ...) is called
StartLogSystemAction ==
    /\ call.pc = "idle"
    /\ system_logs < MaxLogs
    /\ call' = Begin("log_system_action", TRUE)
    /\ UNCHANGED <<store_vars, session_vars, record_vars, is_logging, system_logs>>

\* log_system_action: `if self._is_logging: return`, else the flag is set
Guard ==
    /\ call.pc = "guard"
    /\ IF is_logging
       THEN /\ call' = [call EXCEPT !.pc = "idle", !.skipped = TRUE]
            /\ UNCHANGED is_logging
       ELSE /\ is_logging' = TRUE
            /\ call' = [call EXCEPT !.pc = "log_insert"]
    /\ UNCHANGED <<store_vars, session_vars, record_vars, system_logs>>

\* a guard that is cleared only when the log insert succeeded
ResetOnSuccess(failed) == failed

\* finally: self._is_logging = False
ResetFlag(failed) == FALSE

\* the INSERT INTO system_logs of either method, which raises (the except
\* logs the error) or stores the row; then the finally clause and the return
LogInsert(fails) ==
    /\ call.pc = "log_insert"
    /\ system_logs' = IF fails THEN system_logs ELSE system_logs + 1
    /\ is_logging' = ResetFlag(fails)
    /\ call' = [call EXCEPT !.pc = "idle", !.log_failed = fails, !.logged = ~fails]
    /\ UNCHANGED <<store_vars, session_vars, record_vars>>

NextLog ==
    \/ \E log_action \in BOOLEAN : StartExecuteQuery(log_action)
    \/ \E fails \in BOOLEAN : RunQuery(fails)
    \/ StartLogSystemAction
    \/ Guard
    \/ \E fails \in BOOLEAN : LogInsert(fails)

SpecLog == Init /\ [][NextLog]_vars

(***************************************************************************)
(* Properties.                                                             *)
(***************************************************************************)
\* C1: importing the same workbook twice in sequence leaves customers,
\* distributors and sales with the row counts the first import left.
C1_ReimportKeepsRowCounts ==
    (last.op = "import" /\ last.repeat) =>
        /\ Len(customers) = Len(last.before.customers)
        /\ Len(distributors) = Len(last.before.distributors)
        /\ Len(sales) = Len(last.before.sales)

\* C2: the distributors table holds at most one row for each
\* (name, village, taluka).
C2_DistributorTripleUnique ==
    \A i, j \in DOMAIN distributors :
        (/\ distributors[i].name = distributors[j].name
         /\ distributors[i].village = distributors[j].village
         /\ distributors[i].taluka = distributors[j].taluka) => i = j

\* C3: no two customer rows share a non-empty mobile number, and no two
\* customer rows share a (name, village) pair.
C3_CustomerKeysUnique ==
    \A i, j \in DOMAIN customers :
        i # j =>
            /\ ~(customers[i].mobile # "" /\ customers[i].mobile = customers[j].mobile)
            /\ ~(customers[i].name = customers[j].name
                 /\ customers[i].village = customers[j].village)

\* C3, its case: two customers are stored and the last add_customer call
\* named the (name, village) of one of them with another mobile number,
\* and stored nothing.
C3_Witness ==
    /\ last.op = "add_customer"
    /\ Len(customers) >= 2
    /\ customers = last.before.customers
    /\ \E i \in DOMAIN customers :
          /\ customers[i].name = last.name
          /\ customers[i].village = last.village
          /\ customers[i].mobile # last.mobile

\* C4: when add_customer finds no matching row and inserts, it returns the
\* customer_id of the row it inserted.
C4_ReturnsInsertedId ==
    (last.op = "add_customer" /\ Len(customers) = Len(last.before.customers) + 1) =>
        last.ret = customers[Len(customers)].customer_id

\* C5: when add_customer finds no matching row and stores none, it returns
\* the sentinel -1.
C5_SentinelWhenNothingStored ==
    (/\ last.op = "add_customer"
     /\ ExistingCustomers(last.before, last.name, last.mobile, last.village) = {}
     /\ customers = last.before.customers) => last.ret = -1

\* C6: a sheet with the headers Invoice, Customer, Product, Qty, Amount is
\* classified as Sales and handed to the sales extractor.
C6_SalesHeadersGoToSales ==
    last.op = "import" =>
        \A k \in DOMAIN last.log :
            Workbooks[last.wb][last.log[k].sheet].columns
                = <<"Invoice", "Customer", "Product", "Qty", "Amount">>
            => last.log[k].kind = "Sales" /\ last.log[k].ran = <<"Sales">>

\* C7: a sheet with the headers Name, Mobile, Village, Taluka is classified
\* as Customer and handed to the customer extractor.
C7_CustomerHeadersGoToCustomer ==
    last.op = "import" =>
        \A k \in DOMAIN last.log :
            Workbooks[last.wb][last.log[k].sheet].columns
                = <<"Name", "Mobile", "Village", "Taluka">>
            => last.log[k].kind = "Customer" /\ last.log[k].ran = <<"Customer">>

\* C8: every sheet goes to the first kind, in the order Payment, Sales,
\* Distributor, Customer, whose keyword score meets its threshold (2, 2, 1,
\* 2), and exactly one extractor runs on it.
C8_FirstKindExactlyOneExtractor ==
    last.op = "import" =>
        \A k \in DOMAIN last.log :
            LET columns == files[last.wb].sheets[last.log[k].sheet].df_clean.columns
                first == IF Score(PaymentIndicators, columns) >= 2 THEN "Payment"
                         ELSE IF Score(SalesIndicators, columns) >= 2 THEN "Sales"
                         ELSE IF Score(DistributorIndicators, columns) >= 1 THEN "Distributor"
                         ELSE IF Score(CustomerIndicators, columns) >= 2 THEN "Customer"
                         ELSE "Unknown"
            IN /\ Len(last.log[k].ran) = 1
               /\ first # "Unknown" => last.log[k].ran = <<first>>

\* C9: on a sheet where no kind meets its threshold, process_excel_file
\* runs the customer extractor.
C9_UnknownFallsBackToCustomer ==
    last.op = "import" =>
        \A k \in DOMAIN last.log :
            last.log[k].kind = "Unknown" => last.log[k].ran = <<"Customer">>

\* C10: a sheet that cannot be read does not end the import: every other
\* sheet of the workbook is processed, and the call returns True when any
\* sheet was processed.
C10_SheetFailureIsPerSheet ==
    last.op = "import" =>
        /\ \A i \in DOMAIN files[last.wb].sheets :
              ~files[last.wb].sheets[i].corrupt =>
                  \E k \in DOMAIN last.log : last.log[k].sheet = i
        /\ last.result = (\E k \in DOMAIN last.log : last.log[k].processed)

\* C11: no exception escapes process_excel_file: the call returns a
\* boolean, and False when the workbook cannot be opened.
C11_NoExceptionEscapesImport ==
    last.op = "import" =>
        /\ ~last.raised
        /\ last.result \in BOOLEAN
        /\ ~files[last.wb].opens => last.result = FALSE

\* C11, its case: an import met an exception (a file that does not open,
\* or a sheet that cannot be read) and returned False.
C11_Witness ==
    /\ last.op = "import"
    /\ last.aborted
    /\ ~last.raised
    /\ last.result = FALSE

\* C12: a sheet counts as processed exactly when at least one of its rows
\* was persisted during the run.
C12_CountedIffPersisted ==
    last.op = "import" =>
        \A k \in DOMAIN last.log : last.log[k].processed = last.log[k].persisted

\* C13: in a sales sheet a row that fails a validation gate (customer
\* blank or the placeholder, quantity <= 0, amount <= 0, product not in the
\* product table) creates no sale and no sale item, and every row of the
\* sheet is still reached.  The sales sheets of the model hold invoice,
\* customer, product, quantity and amount in this order.
C13_GateFailureRejectsRowOnly ==
    last.op = "import" =>
        \A k \in DOMAIN last.log :
            last.log[k].kind = "Sales" =>
                LET df == files[last.wb].sheets[last.log[k].sheet].df_clean
                    fails(row) ==
                        \/ row[2] = "" \/ row[2] = "Unknown Customer"
                        \/ row[4] = "" \/ row[4] = "0"
                        \/ row[5] = "" \/ row[5] = "0"
                        \/ \A p \in DOMAIN DefaultProducts : DefaultProducts[p] # row[3]
                IN /\ Len(last.log[k].rows) = Len(df.rows)
                   /\ \A r \in DOMAIN df.rows :
                         fails(df.rows[r]) =>
                            /\ last.log[k].rows[r].sales_after = last.log[k].rows[r].sales_before
                            /\ last.log[k].rows[r].items_after = last.log[k].rows[r].items_before

\* C13, its case: the sheet of the five rows, four of which fail one gate
\* each, was imported, and the valid row after them stored its sale.
C13_Witness ==
    /\ last.op = "import"
    /\ Workbooks[last.wb] = <<GateSheet>>
    /\ Len(last.log) = 1
    /\ Len(last.log[1].rows) = 5
    /\ last.log[1].rows[4].sales_after = last.log[1].rows[4].sales_before
    /\ last.log[1].rows[5].sales_after = last.log[1].rows[5].sales_before + 1
    /\ last.log[1].rows[5].items_after = last.log[1].rows[5].items_before + 1

\* C14: a sales row with a blank Invoice cell in the first column, customer
\* Ram Patel, product 5 LTR STEEL BARNI, quantity 2 and amount 1360 gives a
\* sale of that customer with a generated invoice number and exactly one
\* sale item, of rate 680 and amount 1360.
C14_BlankInvoiceRowStored ==
    (last.op = "import" /\ Workbooks[last.wb] = <<BlankInvoiceSheet>>) =>
        \E i \in DOMAIN sales :
            /\ sales[i].invoice_no # ""
            /\ \E c \in DOMAIN customers :
                  /\ customers[c].customer_id = sales[i].customer_id
                  /\ customers[c].name = "Ram Patel"
            /\ Cardinality({j \in DOMAIN sale_items :
                                sale_items[j].sale_id = sales[i].sale_id}) = 1
            /\ \A j \in DOMAIN sale_items :
                  sale_items[j].sale_id = sales[i].sale_id =>
                      sale_items[j].rate = 680 /\ sale_items[j].amount = 1360

\* C15: every payment row refers to an existing sale; a payment sheet
\* creates no sale, and when none of its invoice numbers is the invoice_no
\* of a sale it leaves the store as it was.  The payment sheets of the
\* model hold the invoice number in the first column.
C15_PaymentNeedsExistingSale ==
    /\ \A p \in DOMAIN payments :
          \E i \in DOMAIN sales : sales[i].sale_id = payments[p].sale_id
    /\ (last.op = "import" /\ Len(last.log) = 1 /\ last.log[1].kind = "Payment") =>
          LET df == files[last.wb].sheets[1].df_clean
              known == {r \in DOMAIN df.rows :
                          \E i \in DOMAIN last.before.sales :
                              last.before.sales[i].invoice_no = df.rows[r][1]}
          IN /\ sales = last.before.sales
             /\ sale_items = last.before.sale_items
             /\ known = {} => payments = last.before.payments

\* C15, its case: a payment sheet named the invoice of a stored sale and
\* its payment was stored.
C15_Witness ==
    /\ last.op = "import"
    /\ Len(last.log) = 1
    /\ last.log[1].kind = "Payment"
    /\ Len(payments) = Len(last.before.payments) + 1
    /\ \E i \in DOMAIN sales : sales[i].sale_id = payments[Len(payments)].sale_id

\* C16: after any sequence of add_sale calls, payment-sheet imports and
\* payment inserts from the sales page, every sale's payment_status equals
\* the status derived from the sum of its payments and its total_amount
C16_StatusMatchesPayments ==
    \A i \in DOMAIN sales :
        LET paid == PaidFor(Db, sales[i].sale_id)
        IN sales[i].payment_status =
              IF paid >= sales[i].total_amount THEN "Paid"
              ELSE IF paid > 0 THEN "Partial" ELSE "Pending"

\* C17: for every sale stored by add_sale, total_amount equals the sum of
\* the amounts of its sale_items rows, and each item's amount equals its
\* quantity times its rate
C17_TotalIsSumOfItems ==
    /\ \A i \in DOMAIN sales :
          sales[i].total_amount =
             SumSeq([k \in DOMAIN sale_items |->
                 IF sale_items[k].sale_id = sales[i].sale_id
                 THEN sale_items[k].amount ELSE 0])
    /\ \A k \in DOMAIN sale_items :
          sale_items[k].amount = sale_items[k].quantity * sale_items[k].rate

\* a sale of two items is on record, with a total above either item's amount
C17_Witness ==
    \E i \in DOMAIN sales :
        /\ Cardinality({k \in DOMAIN sale_items : sale_items[k].sale_id = sales[i].sale_id}) = 2
        /\ \A k \in DOMAIN sale_items :
              sale_items[k].sale_id = sales[i].sale_id =>
                 /\ sale_items[k].amount > 0
                 /\ sale_items[k].amount < sales[i].total_amount

\* C18: a sale is created atomically with its items: every sales row has at
\* least one sale_items row, every sale_items row belongs to a sales row,
\* and when add_sale fails (a duplicate invoice_no) on the sales page or on
\* a row of an imported sheet, no sale, item or payment of it remains
C18_SaleAtomicWithItems ==
    /\ \A i \in DOMAIN sales :
          \E k \in DOMAIN sale_items : sale_items[k].sale_id = sales[i].sale_id
    /\ \A k \in DOMAIN sale_items :
          \E i \in DOMAIN sales : sales[i].sale_id = sale_items[k].sale_id
    /\ (last.op = "create_sale" /\ ~last.result) => Db = last.before
    /\ last.op = "import" =>
          \A e \in DOMAIN last.log : \A r \in DOMAIN last.log[e].rows :
              (last.log[e].rows[r].sales_after = last.log[e].rows[r].sales_before)
                 <=> (last.log[e].rows[r].items_after = last.log[e].rows[r].items_before)

\* add_sale was called on the sales page with an invoice number already on
\* record and failed, with sales and items in the store before the call
C18_Witness ==
    /\ last.op = "create_sale"
    /\ ~last.result
    /\ last.before.sales # <<>>
    /\ last.before.sale_items # <<>>
    /\ \E i \in DOMAIN sales : sales[i].invoice_no = "B1"

\* C19: within one bucket (prefix and month-year) successive sequential
\* calls of generate_invoice_number("INVCL") yield strictly increasing
\* serials: each call returns a serial strictly greater than the one the
\* previous call returned
C19_SerialsStrictlyIncrease ==
    \A k \in DOMAIN issued :
        k > 1 =>
           StrToNat(SubSeq(issued[k], 10, Len(issued[k])))
              > StrToNat(SubSeq(issued[k - 1], 10, Len(issued[k - 1])))

\* C20: generate_invoice_number returns the maximum serial of the bucket
\* plus one whatever the order the invoices were inserted in, so the number
\* it generates never equals an invoice_no already on record
C20_GeneratedNumberIsFresh ==
    \A i \in DOMAIN sales :
        sales[i].invoice_no # GenerateInvoiceNumber(Db, "INVCL")

\* C21: when the first insert attempt of add_customer fails on a
\* customer_code collision, the code is regenerated and the insert retried,
\* so a call that matched no existing customer ends with its row inserted
C21_CollisionStillInserts ==
    (/\ last.op = "add_customer"
     /\ ExistingCustomers(last.before, last.name, last.mobile, last.village) = {})
    => \E i \in DOMAIN customers :
          /\ customers[i].name = last.name
          /\ customers[i].mobile = last.mobile
          /\ customers[i].village = last.village

\* C23: process_distributor_sheet rejects a row exactly when both village
\* and taluka are blank; a row with at least one of them non-blank is
\* persisted as a distributor.  The distributor sheets of the model hold
\* the village in the second and the taluka in the third column.
C23_RejectsOnlyWhenBothBlank ==
    last.op = "import" =>
        \A k \in DOMAIN last.log :
            last.log[k].kind = "Distributor" =>
                LET df == files[last.wb].sheets[last.log[k].sheet].df_clean
                IN \A r \in DOMAIN df.rows :
                      ~SkipRow(df.rows[r]) =>
                         ((df.rows[r][2] = "" /\ df.rows[r][3] = "")
                            <=> (last.log[k].rows[r].distributors_after
                                    = last.log[k].rows[r].distributors_before))

\* C24: add_customer never merges distinct customers that have no mobile:
\* a call with a blank mobile whose (name, village) pair differs from that
\* of every customer on record, made when a customer without mobile is
\* already on record, creates a row of its own and returns an id that is
\* not the id of an earlier customer
C24_BlankMobilesNotMerged ==
    (/\ last.op = "add_customer"
     /\ last.mobile = ""
     /\ \E i \in DOMAIN last.before.customers : last.before.customers[i].mobile = ""
     /\ \A i \in DOMAIN last.before.customers :
           ~(/\ last.before.customers[i].name = last.name
             /\ last.before.customers[i].village = last.village))
    => /\ \E i \in DOMAIN customers :
             /\ customers[i].name = last.name
             /\ customers[i].village = last.village
             /\ customers[i].mobile = ""
       /\ \A i \in DOMAIN last.before.customers :
             last.before.customers[i].customer_id # last.ret

\* C25: every sale persisted by process_sales_sheet has a customer_id that
\* refers to a customer row whose name equals the customer name of the
\* sheet row it came from, whatever customers already exist and also for
\* rows processed within the same clock second
C25_SaleBelongsToNamedCustomer ==
    last.op = "import" =>
        \A k \in DOMAIN last.log :
            last.log[k].kind = "Sales" =>
                LET df == files[last.wb].sheets[last.log[k].sheet].df_clean
                IN \A r \in DOMAIN last.log[k].rows :
                      last.log[k].rows[r].sales_after > last.log[k].rows[r].sales_before =>
                         \E c \in DOMAIN customers :
                            /\ customers[c].customer_id
                                  = sales[last.log[k].rows[r].sales_after].customer_id
                            /\ customers[c].name
                                  = ExtractSalesValue(df.columns, df.rows[r], "customer", 1,
                                                      "Unknown Customer")

\* C26: a sales row rejected by process_sales_sheet (customer blank or the
\* placeholder, quantity <= 0, amount <= 0, product not in the product
\* table) leaves the store unchanged: customers, sales, sale items and
\* payments are the same before and after the row
C26_RejectedRowChangesNothing ==
    last.op = "import" =>
        \A k \in DOMAIN last.log :
            last.log[k].kind = "Sales" =>
                LET df == files[last.wb].sheets[last.log[k].sheet].df_clean
                    rejected(row) ==
                        \/ row[2] = "" \/ row[2] = "Unknown Customer"
                        \/ row[4] = "" \/ row[4] = "0"
                        \/ row[5] = "" \/ row[5] = "0"
                        \/ \A p \in DOMAIN DefaultProducts : DefaultProducts[p] # row[3]
                IN \A r \in DOMAIN last.log[k].rows :
                      rejected(df.rows[r]) =>
                         /\ ~last.log[k].rows[r].changed
                         /\ last.log[k].rows[r].customers_after
                               = last.log[k].rows[r].customers_before

\* C27: re-importing the same payment sheet does not change the payments
\* recorded for any sale: after the second import the number of payment
\* rows and the total paid amount of every sale equal those after the first
C27_PaymentReimportIdempotent ==
    (last.op = "import" /\ last.repeat) =>
        \A i \in DOMAIN last.before.sales :
            /\ Cardinality({p \in DOMAIN payments :
                              payments[p].sale_id = last.before.sales[i].sale_id})
                 = Cardinality({p \in DOMAIN last.before.payments :
                              last.before.payments[p].sale_id = last.before.sales[i].sale_id})
            /\ PaidFor(Db, last.before.sales[i].sale_id)
                 = PaidFor(last.before, last.before.sales[i].sale_id)

\* C28: process_single_sheet and process_excel_file choose the same
\* extractor for every header set: a sheet that the import processed as
\* Payment, Sales, Distributor or Customer is processed as the same kind by
\* process_single_sheet
C28_SingleSheetSameKind ==
    last.op = "import" =>
        \A k \in DOMAIN last.log :
            last.log[k].kind # "Unknown" =>
                SingleSheetDispatch(
                    files[last.wb].sheets[last.log[k].sheet].df_clean.columns)
                  = last.log[k].kind

\* C22: the existence check and the insert of add_customer are separate
\* store operations: a call that passed its check inserts its row whenever
\* its customer_code is free, whatever the other session inserted since the
\* check, so two interleaved calls with the same non-empty mobile that both
\* passed the check leave two customer rows for that mobile
C22_CheckThenInsertNotAtomic ==
    /\ \A s \in DOMAIN sessions :
          (sessions[s].pc = "done" /\ sessions[s].passed) =>
             (sessions[s].inserted <=> ~sessions[s].collided)
    /\ \A s, t \in DOMAIN sessions :
          (/\ s # t
           /\ sessions[s].pc = "done" /\ sessions[s].passed /\ ~sessions[s].collided
           /\ sessions[t].pc = "done" /\ sessions[t].passed /\ ~sessions[t].collided
           /\ sessions[s].mobile = sessions[t].mobile)
          => Cardinality({i \in DOMAIN customers :
                             customers[i].mobile = sessions[s].mobile}) >= 2

\* both sessions passed the check with the same non-empty mobile and both
\* inserted: the store holds two customer rows for that mobile
C22_Witness ==
    /\ sessions[1].pc = "done" /\ sessions[1].passed
    /\ sessions[2].pc = "done" /\ sessions[2].passed
    /\ sessions[1].mobile = "98" /\ sessions[2].mobile = "98"
    /\ Cardinality({i \in DOMAIN customers : customers[i].mobile = "98"}) = 2

\* C29: in every record returned by standardize_record, payment_status is
\* PAID only if gpay_amount + cash_amount + cheque_amount is at least the
\* final_amount of the record, also when final_amount was filled in from
\* amount or from quantity times rate
C29_PaidOnlyWhenCovered ==
    (record.made /\ record.payment_status = "PAID") =>
        record.gpay_amount + record.cash_amount + record.cheque_amount
            >= record.final_amount

\* C30: the recursion guard _is_logging is False whenever no
\* DatabaseManager call is in progress: after execute_query or
\* log_system_action returns, whether the query or the log insert succeeded
\* or failed, the flag is False, so no call that asks for logging is left
\* unlogged because of a stale flag
C30_FlagClearWhenIdle ==
    /\ call.pc = "idle" => ~is_logging
    /\ ~call.skipped

\* execute_query with log_action=True returned with its log row stored,
\* after a call whose log insert had failed
C30_Witness ==
    /\ call.pc = "idle"
    /\ call.op = "execute_query"
    /\ call.log_action
    /\ call.after_failure
    /\ call.logged
    /\ ~is_logging

====
